---- MODULE Spec2Model ----
(***************************************************************************)
(* A model of ftl-hole: the orbit module (src/src/orbit.rs: Koe, Csv, CB)  *)
(* and the game loop's numeric propagator (src/src/main.rs: Sat, Remap).   *)
(*                                                                         *)
(* Every number of the program is an f64.  The model keeps what f64        *)
(* arithmetic does and shrinks its width: a value is a binary floating     *)
(* point number with a MantBits-bit significand, rounded to nearest, ties  *)
(* to even, with gradual underflow at 2^-FracBits, plus the two infinities *)
(* and NaN.  A finite value x is held as the integer x * Scale.  The sign  *)
(* of zero is not kept and the exponent has no upper limit.                *)
(***************************************************************************)
EXTENDS Integers, Sequences, FiniteSets, TLC

VARIABLES
    kIn,      \* the KOE that receives tick (the memory behind &self)
    kOrig,    \* the value kIn had when it was built
    kA,       \* kIn.tick(d1)
    kB,       \* kIn.tick(d1).tick(d2)
    kS,       \* kIn.tick(d1 + d2)
    d1, d2,   \* the two elapsed times
    tpc,      \* how far the tick scenario has run
    rmp,      \* one call of Remap::remap: its arguments and its result
    sat,      \* player.sat: pos, vel and when
    wps,      \* warp_points[i].pos
    time,     \* main's time, the frame's get_time()
    pc,       \* where main is: at the top of its loop or inside tick_to
    call,     \* the latest player.sat.tick_to(time): what it started from
    oCsv,     \* the Csv handed to Koe::from_csv
    oKoe,     \* the Koe it returned
    oBack,    \* Csv::from_koe of that Koe
    opc       \* how far the conversion scenario has run

tickVars  == <<kIn, kOrig, kA, kB, kS, d1, d2, tpc>>
remapVars == <<rmp>>
satVars   == <<sat, wps, time, pc, call>>
orbitVars == <<oCsv, oKoe, oBack, opc>>
vars == <<tickVars, remapVars, satVars, orbitVars>>

(***************************************************************************)
(* Bounds of the model.                                                    *)
(***************************************************************************)
MantBits == 4
FracBits == 6
MaxExp   == 24

(***************************************************************************)
(* f64, narrowed.                                                          *)
(***************************************************************************)
RECURSIVE Pow2(_)
Pow2(n) == IF n = 0 THEN 1 ELSE 2 * Pow2(n - 1)

Scale == Pow2(FracBits)

Abs(x) == IF x < 0 THEN -x ELSE x
Sgn(x) == IF x < 0 THEN -1 ELSE IF x > 0 THEN 1 ELSE 0

Fin(x) == [k |-> "fin", v |-> x]
NaN    == [k |-> "nan", v |-> 0]
Inf(s) == [k |-> "inf", v |-> s]
\* a finite value the model does not follow (see the angles below)
Off    == [k |-> "off", v |-> 0]
IsFin(a) == a.k = "fin"
IsNaN(a) == a.k = "nan"
IsInf(a) == a.k = "inf"
IsOff(a) == a.k = "off"
Zero == Fin(0)
One  == Fin(Scale)

\* q = a / d rounded to the nearest integer, a tie going to the even one
RoundHalfEven(a, d) ==
    LET q == a \div d
        r == a % d
    IN  IF 2 * r < d THEN q
        ELSE IF 2 * r > d THEN q + 1
        ELSE IF q % 2 = 0 THEN q ELSE q + 1

\* the exponent at which a / d has a significand of MantBits bits
ExpOf(a, d) == CHOOSE e \in 0..MaxExp :
                  /\ a < Pow2(MantBits) * d * Pow2(e)
                  /\ (e = 0 \/ a >= Pow2(MantBits) * d * Pow2(e - 1))

\* the rational num / den (den > 0) rounded to a representable value
Rnd(num, den) ==
    LET a == Abs(num)
        e == ExpOf(a, den)
    IN  Fin(Sgn(num) * RoundHalfEven(a, den * Pow2(e)) * Pow2(e))

Representable(x) == Rnd(x, 1) = Fin(x)

FNeg(a) == IF IsFin(a) THEN Fin(-a.v) ELSE IF IsInf(a) THEN Inf(-a.v) ELSE a

FAdd(a, b) ==
    IF IsNaN(a) \/ IsNaN(b) THEN NaN
    ELSE IF IsOff(a) \/ IsOff(b) THEN Off
    ELSE IF IsInf(a) /\ IsInf(b) THEN (IF a.v = b.v THEN a ELSE NaN)
    ELSE IF IsInf(a) THEN a
    ELSE IF IsInf(b) THEN b
    ELSE Rnd(a.v + b.v, 1)

FSub(a, b) == FAdd(a, FNeg(b))

FMul(a, b) ==
    IF IsNaN(a) \/ IsNaN(b) THEN NaN
    ELSE IF IsOff(a) \/ IsOff(b) THEN Off
    ELSE IF IsInf(a) \/ IsInf(b)
         THEN (IF Sgn(a.v) * Sgn(b.v) = 0 THEN NaN ELSE Inf(Sgn(a.v) * Sgn(b.v)))
    ELSE Rnd(a.v * b.v, Scale)

FDiv(a, b) ==
    IF IsNaN(a) \/ IsNaN(b) THEN NaN
    ELSE IF IsOff(a) \/ IsOff(b) THEN Off
    ELSE IF IsInf(a) THEN (IF IsInf(b) THEN NaN
                           ELSE Inf(a.v * (IF b.v < 0 THEN -1 ELSE 1)))
    ELSE IF IsInf(b) THEN Zero
    ELSE IF b.v = 0 THEN (IF a.v = 0 THEN NaN ELSE Inf(Sgn(a.v)))
    ELSE Rnd(Sgn(b.v) * a.v * Scale, Abs(b.v))

\* f64::sqrt, correctly rounded
SqrtExp(n) == CHOOSE e \in 0..MaxExp :
                  /\ n < Pow2(MantBits + e) * Pow2(MantBits + e)
                  /\ (e = 0 \/ n >= Pow2(MantBits + e - 1) * Pow2(MantBits + e - 1))
FSqrt(a) ==
    IF IsNaN(a) THEN NaN
    ELSE IF IsOff(a) THEN Off
    ELSE IF IsInf(a) THEN (IF a.v > 0 THEN a ELSE NaN)
    ELSE IF a.v < 0 THEN NaN
    ELSE LET n == a.v * Scale
             e == SqrtExp(n)
             u == Pow2(e)
             m == CHOOSE i \in 0..Pow2(MantBits) :
                     (i * u) * (i * u) <= n /\ n < ((i + 1) * u) * ((i + 1) * u)
             h == (2 * m + 1) * (2 * m + 1) * u * u
             r == IF 4 * n > h THEN m + 1
                  ELSE IF 4 * n < h THEN m
                  ELSE IF m % 2 = 0 THEN m ELSE m + 1
         IN  Fin(r * u)

\* a < b, a <= b, a > b, a >= b of f64: false as soon as one side is NaN
Key(a) == IF IsInf(a) THEN a.v ELSE 0
FLt(a, b) ==
    /\ ~IsNaN(a) /\ ~IsNaN(b)
    /\ IF IsInf(a) \/ IsInf(b) THEN Key(a) < Key(b) /\ ~(a = b) ELSE a.v < b.v
FLe(a, b) == ~IsNaN(a) /\ ~IsNaN(b) /\ (a = b \/ FLt(a, b))
FGt(a, b) == FLt(b, a)
FGe(a, b) == FLe(b, a)

(***************************************************************************)
(* Koe (orbit.rs).  The fields a, e, inc, lan, ap, m0, n are f64; rot and  *)
(* cb are carried as they are.                                             *)
(***************************************************************************)
KoeFields == {"a", "e", "inc", "lan", "ap", "m0", "n", "rot", "cb"}

\* Koe::tick: what the call leaves in the receiver and what it returns
tick_inplace(self, dt) ==
    LET r == [self EXCEPT !.m0 = FAdd(self.m0, FMul(self.n, dt))]
    IN  [self |-> r, ret |-> r]

tick_no_m0(self, dt) ==
    [self |-> self, ret |-> [self EXCEPT !.m0 = FMul(self.n, dt)]]

tick(self, dt) ==
    [self |-> self,
     ret  |-> [self EXCEPT !.m0 = FAdd(self.m0, FMul(self.n, dt))]]

(***************************************************************************)
(* Remap for f64 (main.rs).  A Range is its start and its end.             *)
(***************************************************************************)
remap_no_offset(x, current, target) ==
    FMul(FDiv(FSub(x, current.start), FSub(current.end, current.start)),
         FSub(target.end, target.start))

remap(x, current, target) ==
    FAdd(FMul(FDiv(FSub(x, current.start), FSub(current.end, current.start)),
              FSub(target.end, target.start)),
         target.start)

Range(a, b) == [start |-> a, end |-> b]

(***************************************************************************)
(* Sat (main.rs).  A DVec2 is its x and its y.  PULL, WORLD_RADIUS_METERS  *)
(* and tick_to's dt are the program's constants cut down to what the       *)
(* narrowed format holds: like 0.001, the model's dt is no short binary    *)
(* fraction of the times it is added to, so that repeated when += dt       *)
(* rounds as it does in the program.                                       *)
(***************************************************************************)
Vec2(x, y) == [x |-> x, y |-> y]
VAdd(a, b) == Vec2(FAdd(a.x, b.x), FAdd(a.y, b.y))
VNeg(a)    == Vec2(FNeg(a.x), FNeg(a.y))
VMul(a, c) == Vec2(FMul(a.x, c), FMul(a.y, c))
VDiv(a, c) == Vec2(FDiv(a.x, c), FDiv(a.y, c))
length(a)  == FSqrt(FAdd(FMul(a.x, a.x), FMul(a.y, a.y)))

WORLD_RADIUS_METERS == Fin(16 * Scale)
PULL == Fin(8 * Scale)
SatDt == Rnd(13 * Scale, 64)

\* Sat::acceleration
acceleration(self) ==
    LET r  == length(self.pos)
        r3 == FMul(FMul(r, r), r)
    IN  VDiv(VMul(VNeg(self.pos), PULL), r3)

\* the body of tick_to's loop, run once
step_explicit(self) ==
    LET acc == acceleration(self)
        vel == VAdd(self.vel, VMul(acc, SatDt))
    IN  [pos |-> VAdd(self.pos, VMul(self.vel, SatDt)), vel |-> vel,
         when |-> FAdd(self.when, SatDt)]

step(self) ==
    LET acc == acceleration(self)
        vel == VAdd(self.vel, VMul(acc, SatDt))
    IN  [pos |-> VAdd(self.pos, VMul(vel, SatDt)), vel |-> vel,
         when |-> FAdd(self.when, SatDt)]

\* the loop's condition: self.when < when
loop_le(self, when) == FLe(self.when, when)

loop_continues(self, when) == FLt(self.when, when)

\* std::mem::swap(&mut player.sat.pos, &mut warp_pos.pos)
swap(s, w, i) ==
    [sat |-> [s EXCEPT !.pos = w[i]], wps |-> [w EXCEPT ![i] = s.pos]]

\* main, up to its loop
InitialSat ==
    LET initial_radius == Rnd(Scale, 6)
        pos    == VMul(Vec2(initial_radius, Zero), WORLD_RADIUS_METERS)
        v_scale == Rnd(4 * Scale, 5)
        v_mag  == FSqrt(FDiv(PULL, length(pos)))
    IN  [pos |-> pos, vel |-> Vec2(Zero, FMul(v_scale, v_mag)), when |-> Zero]

(***************************************************************************)
(* Angles.  orbit.rs keeps angles as f64 radians.  The model follows an    *)
(* angle exactly while it is a whole number of eighths of a turn, held as  *)
(* [k |-> "ang", v |-> eighths]; NaN is NaN; any other angle is Off, a     *)
(* finite value the model does not follow.  The trigonometric functions    *)
(* take the multiples of a quarter turn to 0, 1 and -1 (f64 is within an   *)
(* ulp of that) and the odd eighths to the rounded sqrt(1/2).              *)
(***************************************************************************)
Ang(n)   == [k |-> "ang", v |-> n]
IsAng(a) == a.k = "ang"
PI       == Ang(4)

Sqrt1_2 == Rnd(7071 * Scale, 10000)

\* f64::acos
acos(x) ==
    IF IsNaN(x) \/ IsInf(x) THEN NaN
    ELSE IF IsOff(x) THEN Off
    ELSE IF Abs(x.v) > Scale THEN NaN
    ELSE IF x.v = Scale THEN Ang(0)
    ELSE IF x.v = 0 THEN Ang(2)
    ELSE IF x.v = -Scale THEN Ang(4)
    ELSE Off

\* f64::cos, f64::sin, f64::tan of an angle
cos(a) ==
    IF IsNaN(a) THEN NaN
    ELSE IF ~IsAng(a) THEN Off
    ELSE CASE a.v % 8 = 0 -> One
           [] a.v % 8 \in {2, 6} -> Zero
           [] a.v % 8 = 4 -> FNeg(One)
           [] a.v % 8 \in {1, 7} -> Sqrt1_2
           [] a.v % 8 \in {3, 5} -> FNeg(Sqrt1_2)

sin(a) ==
    IF IsNaN(a) THEN NaN
    ELSE IF ~IsAng(a) THEN Off
    ELSE CASE a.v % 8 \in {0, 4} -> Zero
           [] a.v % 8 = 2 -> One
           [] a.v % 8 = 6 -> FNeg(One)
           [] a.v % 8 \in {1, 3} -> Sqrt1_2
           [] a.v % 8 \in {5, 7} -> FNeg(Sqrt1_2)

\* tan of a quarter turn is a huge finite f64 (1.6e16); it is only ever
\* divided by a finite positive number and passed to atan, where it acts
\* as +infinity does
tan(a) ==
    IF IsNaN(a) THEN NaN
    ELSE IF ~IsAng(a) THEN Off
    ELSE CASE a.v % 4 = 0 -> Zero
           [] a.v % 4 = 1 -> One
           [] a.v % 4 = 2 -> Inf(1)
           [] a.v % 4 = 3 -> FNeg(One)

\* f64::atan
atan(x) ==
    IF IsNaN(x) THEN NaN
    ELSE IF IsOff(x) THEN Off
    ELSE IF IsInf(x) THEN Ang(2 * x.v)
    ELSE IF x.v = 0 THEN Ang(0)
    ELSE IF x.v = Scale THEN Ang(1)
    ELSE IF x.v = -Scale THEN Ang(-1)
    ELSE Off

\* f64::atan2, y.atan2(x)
atan2(y, x) ==
    IF IsNaN(y) \/ IsNaN(x) THEN NaN
    ELSE IF ~IsFin(y) \/ ~IsFin(x) THEN Off
    ELSE IF y.v = 0 THEN (IF x.v >= 0 THEN Ang(0) ELSE Ang(4))
    ELSE IF x.v = 0 THEN (IF y.v > 0 THEN Ang(2) ELSE Ang(-2))
    ELSE IF Abs(y.v) # Abs(x.v) THEN Off
    ELSE IF x.v > 0 THEN Ang(Sgn(y.v)) ELSE Ang(3 * Sgn(y.v))

\* angle - angle, as in 2.0 * PI - x
AngSub(a, b) ==
    IF IsNaN(a) \/ IsNaN(b) THEN NaN
    ELSE IF IsAng(a) /\ IsAng(b) THEN Ang(a.v - b.v)
    ELSE Off

\* 2.0 * angle and angle / 2.0
AngTwice(a) == IF IsAng(a) THEN Ang(2 * a.v) ELSE a
AngHalf(a) ==
    IF ~IsAng(a) THEN a
    ELSE IF a.v % 2 = 0 THEN Ang(a.v \div 2) ELSE Off

\* angle - x for a plain number x: followed only where x is 0
AngLess(a, x) ==
    IF IsNaN(a) \/ IsNaN(x) THEN NaN
    ELSE IF IsAng(a) /\ IsFin(x) /\ x.v = 0 THEN a
    ELSE Off

\* the difference of two angles as a plain number: followed only where
\* the two are equal
AngDiff(a, b) ==
    IF IsNaN(a) \/ IsNaN(b) THEN NaN
    ELSE IF IsAng(a) /\ IsAng(b) /\ a.v = b.v THEN Zero
    ELSE Off

\* approx_eq(&x, &0.0) of nalgebra's ApproxEq for f64: |x - 0| < 1e-7
approx_eq_zero(x) ==
    IF IsAng(x) THEN x.v = 0
    ELSE IsFin(x) /\ Abs(x.v) < Scale /\ Abs(x.v) * 10000000 < Scale
(***************************************************************************)
(* Vec3<f64> and Rot3<f64> (nalgebra), as orbit.rs uses them.              *)
(***************************************************************************)
Axes == {"x", "y", "z"}
Vec3(x, y, z) == [x |-> x, y |-> y, z |-> z]

cross(a, b) ==
    Vec3(FSub(FMul(a.y, b.z), FMul(a.z, b.y)),
         FSub(FMul(a.z, b.x), FMul(a.x, b.z)),
         FSub(FMul(a.x, b.y), FMul(a.y, b.x)))
dot(a, b) == FAdd(FAdd(FMul(a.x, b.x), FMul(a.y, b.y)), FMul(a.z, b.z))
sqnorm(a) == dot(a, a)
norm(a)   == FSqrt(sqnorm(a))
V3Add(a, b) == Vec3(FAdd(a.x, b.x), FAdd(a.y, b.y), FAdd(a.z, b.z))
V3Sub(a, b) == Vec3(FSub(a.x, b.x), FSub(a.y, b.y), FSub(a.z, b.z))
V3Mul(a, s) == Vec3(FMul(a.x, s), FMul(a.y, s), FMul(a.z, s))
V3Div(a, s) == Vec3(FDiv(a.x, s), FDiv(a.y, s), FDiv(a.z, s))
normalize(a) == V3Div(a, norm(a))

\* a Rot3 is its three rows
Rows(a, b, c) == [x |-> a, y |-> b, z |-> c]
Col(m, c) == Vec3(m.x[c], m.y[c], m.z[c])

\* Rot3::new_identity(3)
new_identity ==
    Rows(Vec3(One, Zero, Zero), Vec3(Zero, One, Zero), Vec3(Zero, Zero, One))

\* Rot3::new(axis * angle) for a unit axis u: the rotation by angle about
\* it, cos * I + (1 - cos) * u u^T + sin * [u]x
RotEntry(co, si, id, uu, k) ==
    FAdd(FAdd(FMul(co, id), FMul(FSub(One, co), uu)), FMul(si, k))
RotRow(co, si, ur, u, id, k) ==
    Vec3(RotEntry(co, si, id.x, FMul(ur, u.x), k.x),
         RotEntry(co, si, id.y, FMul(ur, u.y), k.y),
         RotEntry(co, si, id.z, FMul(ur, u.z), k.z))
RotNew(u, angle) ==
    Rows(RotRow(cos(angle), sin(angle), u.x, u, new_identity.x,
                Vec3(Zero, FNeg(u.z), u.y)),
         RotRow(cos(angle), sin(angle), u.y, u, new_identity.y,
                Vec3(u.z, Zero, FNeg(u.x))),
         RotRow(cos(angle), sin(angle), u.z, u, new_identity.z,
                Vec3(FNeg(u.y), u.x, Zero)))

\* the product of two rotation matrices
RowTimes(row, q) ==
    Vec3(dot(row, Col(q, "x")), dot(row, Col(q, "y")), dot(row, Col(q, "z")))
Times3(m, q) == Rows(RowTimes(m.x, q), RowTimes(m.y, q), RowTimes(m.z, q))

\* rot.prepend_rotation(&axisangle): rot * Rot3::new(axisangle)
prepend_rotation(rot, u, angle) == Times3(rot, RotNew(u, angle))

\* rot.transform(&v)
transform(rot, v) == Vec3(dot(rot.x, v), dot(rot.y, v), dot(rot.z, v))
(***************************************************************************)
(* CB::new, Koe::new, Koe::from_csv, Csv::from_koe, Csv::newton_raphson.   *)
(***************************************************************************)
CB_new(mu) ==
    LET i == Vec3(One, Zero, Zero)
        k == Vec3(Zero, Zero, One)
    IN  [mu |-> mu, i |-> i, j |-> cross(k, i), k |-> k]

\* the two tests of Koe::new that leave rotations out
skips_always(inc)  == TRUE
skips_lan_inc(inc) == approx_eq_zero(inc)
skips_ap(e)        == approx_eq_zero(e)

\* f64::powf(2.0) and f64::powf(3.0)
powf2(a) ==
    IF IsFin(a) THEN Rnd(a.v * a.v, Scale)
    ELSE IF IsInf(a) THEN Inf(1) ELSE a
powf3(a) ==
    IF IsFin(a) THEN Rnd(a.v * a.v * a.v, Scale * Scale) ELSE a

new(a, e, inc, lan, ap, m0, cb) ==
    LET rot1 == IF ~skips_lan_inc(inc)
                THEN prepend_rotation(prepend_rotation(new_identity, cb.k, lan),
                                      cb.i, inc)
                ELSE new_identity
        rot2 == IF ~skips_ap(e) THEN prepend_rotation(rot1, cb.k, ap) ELSE rot1
    IN  [a |-> a, e |-> e, inc |-> inc, lan |-> lan, ap |-> ap, m0 |-> m0,
         n |-> FSqrt(FDiv(cb.mu, powf3(a))),
         rot |-> rot2, cb |-> cb]

\* Koe::from_csv as far as the inclination
inclination(csv) ==
    LET h       == cross(csv.r, csv.v)
        cos_inc == FDiv(dot(h, csv.cb.k), norm(h))
    IN  [h |-> h, cos_inc |-> cos_inc,
         inc |-> IF FGt(cos_inc, One) THEN Ang(0) ELSE acos(cos_inc)]

\* Koe::from_csv's overrides of lan and ap for circular and equatorial
\* orbits; lop is the longitude of periapsis
overrides_keep_lan(es, inc, lan0, ap0, lop) ==
    [lan |-> lan0,
     ap  |-> IF approx_eq_zero(inc) /\ ~approx_eq_zero(es) THEN lop
             ELSE IF approx_eq_zero(es) THEN Ang(0) ELSE ap0]

degenerate_overrides(es, inc, lan0, ap0, lop) ==
    [lan |-> IF approx_eq_zero(inc) THEN Ang(0) ELSE lan0,
     ap  |-> IF approx_eq_zero(inc) /\ ~approx_eq_zero(es) THEN lop
             ELSE IF approx_eq_zero(es) THEN Ang(0) ELSE ap0]

\* if c { x.acos() } else { 2.0 * PI - x.acos() }
acos_or_rest(c, x) == IF c THEN acos(x) ELSE AngSub(AngTwice(PI), acos(x))

\* Koe::from_csv, its locals computed in the order of the code and handed
\* on: ta, ea, m0 and a
from_csv_anomalies(csv, e, n, inc, es, lan, ap, ta) ==
    LET ea == AngTwice(atan(FDiv(tan(AngHalf(ta)),
                   FSqrt(FDiv(FAdd(One, es), FSub(One, es))))))
    IN  [a |-> FDiv(One, FSub(FDiv(Fin(2 * Scale), norm(csv.r)),
                              FDiv(sqnorm(csv.v), csv.cb.mu))),
         e |-> es, inc |-> inc, lan |-> lan, ap |-> ap,
         m0 |-> AngLess(ea, FMul(es, sin(ea))),
         e_vec |-> e, ta |-> ta]

\* the true anomaly, replaced for circular orbits
from_csv_ta(csv, e, n, inc, es, deg) ==
    from_csv_anomalies(csv, e, n, inc, es, deg.lan, deg.ap,
        IF ~approx_eq_zero(es)
        THEN acos_or_rest(FGe(dot(csv.r, csv.v), Zero),
                 FDiv(dot(e, csv.r), FMul(norm(e), norm(csv.r))))
        ELSE IF approx_eq_zero(inc)
        THEN acos_or_rest(FLe(dot(csv.cb.i, csv.v), Zero),
                 FDiv(dot(csv.cb.i, csv.r), FMul(norm(csv.cb.i), norm(csv.r))))
        ELSE acos_or_rest(FLe(dot(n, csv.v), Zero),
                 FDiv(dot(n, csv.r), FMul(norm(n), norm(csv.r)))))

\* lan and ap, and their overrides
from_csv_angles(csv, h, e, n, inc, es) ==
    from_csv_ta(csv, e, n, inc, es,
        degenerate_overrides(es, inc,
            acos_or_rest(FGe(dot(n, csv.cb.j), Zero),
                         FDiv(dot(n, csv.cb.i), norm(n))),
            acos_or_rest(FGe(dot(e, cross(h, n)), Zero),
                         FDiv(dot(n, e), FMul(norm(n), norm(e)))),
            acos_or_rest(FGe(dot(e, csv.cb.j), Zero),
                         FDiv(dot(csv.cb.i, e), norm(e)))))

\* e, n, inc and es
from_csv_vectors(csv, h, e) ==
    from_csv_angles(csv, h, e, cross(csv.cb.k, h), inclination(csv).inc, norm(e))

\* the values Koe::from_csv hands to Koe::new
from_csv_elements(csv) ==
    from_csv_vectors(csv, cross(csv.r, csv.v),
        V3Sub(V3Div(cross(csv.v, cross(csv.r, csv.v)), csv.cb.mu),
              normalize(csv.r)))

from_csv(csv) ==
    LET q == from_csv_elements(csv)
    IN  new(q.a, q.e, q.inc, q.lan, q.ap, q.m0, csv.cb)

\* Csv::newton_raphson
iterations == 10
RECURSIVE newton_raphson_from(_, _, _, _)
newton_raphson_from(ea, m0, e, left) ==
    IF left = 0 THEN ea
    ELSE newton_raphson_from(
             AngLess(ea, FDiv(AngDiff(AngLess(ea, FMul(e, sin(ea))), m0),
                              FSub(One, FMul(e, cos(ea))))),
             m0, e, left - 1)
newton_raphson(m0, e, its) == newton_raphson_from(m0, m0, e, its)

\* Csv::from_koe, from the eccentric anomaly on
from_koe_plane(koe, ea, ta, dist) ==
    [r |-> transform(koe.rot,
               V3Mul(V3Add(V3Mul(koe.cb.i, cos(ta)), V3Mul(koe.cb.j, sin(ta))),
                     dist)),
     v |-> transform(koe.rot,
               V3Mul(V3Add(V3Mul(koe.cb.i, FNeg(sin(ea))),
                           V3Mul(koe.cb.j,
                                 FMul(FSqrt(FSub(One, powf2(koe.e))), cos(ea)))),
                     FDiv(FSqrt(FMul(koe.cb.mu, koe.a)), dist))),
     cb |-> koe.cb]

from_koe_at(koe, ea) ==
    from_koe_plane(koe, ea,
        AngTwice(atan2(FMul(FSqrt(FAdd(One, koe.e)), sin(AngHalf(ea))),
                       FMul(FSqrt(FSub(One, koe.e)), cos(AngHalf(ea))))),
        FMul(koe.a, FSub(One, FMul(koe.e, cos(ea)))))

\* Csv::from_koe
from_koe(koe) == from_koe_at(koe, newton_raphson(koe.m0, koe.e, iterations))
(***************************************************************************)
(* The tick scenario: a KOE k and two elapsed times d1, d2;                *)
(* kA = k.tick(d1), kB = kA.tick(d2), kS = k.tick(d1 + d2).                *)
(***************************************************************************)
NoKoe == [f \in KoeFields |-> NaN]

\* finite f64 values the scenario draws from (held as value * Scale)
FinOf(S) == {Fin(x) : x \in {y \in S : Representable(y)}}
TickM0 == FinOf({0, 20, 352})
TickN  == FinOf({24, 64, 104})
TickDt == FinOf({-72, -16, 40, 96, 320})

SomeKoe(m0, n) ==
    [a |-> Fin(16), e |-> Fin(2), inc |-> Fin(3), lan |-> Fin(4), ap |-> Fin(6),
     m0 |-> m0, n |-> n, rot |-> Fin(7), cb |-> Fin(9)]

IdleTick ==
    /\ kIn = NoKoe /\ kOrig = NoKoe /\ kA = NoKoe /\ kB = NoKoe /\ kS = NoKoe
    /\ d1 = Zero /\ d2 = Zero
    /\ tpc = "idle"

InitTickOnly ==
    /\ \E m0 \in TickM0, n \in TickN : kIn = SomeKoe(m0, n)
    /\ kOrig = kIn
    /\ d1 \in TickDt
    /\ d2 \in TickDt
    /\ kA = NoKoe /\ kB = NoKoe /\ kS = NoKoe
    /\ tpc = "start"

\* let kA = kIn.tick(d1)
TickFirst ==
    /\ tpc = "start"
    /\ LET c == tick(kIn, d1) IN kIn' = c.self /\ kA' = c.ret
    /\ tpc' = "first"
    /\ UNCHANGED <<kOrig, kB, kS, d1, d2, remapVars, satVars, orbitVars>>

\* let kB = kA.tick(d2)
TickSecond ==
    /\ tpc = "first"
    /\ LET c == tick(kA, d2) IN kA' = c.self /\ kB' = c.ret
    /\ tpc' = "second"
    /\ UNCHANGED <<kIn, kOrig, kS, d1, d2, remapVars, satVars, orbitVars>>

\* let kS = kIn.tick(d1 + d2)
TickSum ==
    /\ tpc = "second"
    /\ LET c == tick(kIn, FAdd(d1, d2)) IN kIn' = c.self /\ kS' = c.ret
    /\ tpc' = "done"
    /\ UNCHANGED <<kOrig, kA, kB, d1, d2, remapVars, satVars, orbitVars>>

NextTick == TickFirst \/ TickSecond \/ TickSum

RemapX     == FinOf({-32, 11, 32, 104, 208})
RemapBound == FinOf({-64, 0, 20, 64, 104, 128})

IdleRemap == rmp = [x |-> Zero, current |-> Range(Zero, Zero),
                    target |-> Range(Zero, Zero), out |-> NaN, done |-> FALSE]

InitRemapOnly ==
    \E x \in RemapX, cs \in RemapBound, ce \in RemapBound,
       ts \in RemapBound, te \in RemapBound :
        /\ cs # ce
        /\ rmp = [x |-> x, current |-> Range(cs, ce), target |-> Range(ts, te),
                  out |-> NaN, done |-> FALSE]

\* the range's own start or end is remapped, or any other x
RemapCall ==
    /\ ~rmp.done
    /\ \E x \in {rmp.x, rmp.current.start, rmp.current.end} :
          rmp' = [rmp EXCEPT !.x = x,
                             !.out = remap(x, rmp.current, rmp.target),
                             !.done = TRUE]
    /\ UNCHANGED <<tickVars, satVars, orbitVars>>

NextRemap == RemapCall

(***************************************************************************)
(* main's loop.  A frame reads the clock, on a click swaps the player's    *)
(* position with a warp point's, and calls player.sat.tick_to(time); the   *)
(* loop of tick_to runs one iteration per step.  What the frame draws      *)
(* (the warp points, the lookahead on a copy of player.sat) changes        *)
(* nothing that outlives the frame.                                        *)
(***************************************************************************)
MaxQuarter == 5

\* the warp points, by colour (two of the program's four)
WarpPoints == {"DARKBROWN", "MAROON"}

\* the clock values a frame may read: quarters of a time unit
Times == {Rnd(q * Scale, 4) : q \in 0..MaxQuarter}

\* where a warp point may start: on the circle of WORLD_RADIUS_METERS
WarpStarts ==
    {Vec2(Zero, WORLD_RADIUS_METERS), Vec2(FNeg(WORLD_RADIUS_METERS), Zero)}

NoCall == [t |-> Zero, from |-> InitialSat, steps |-> 0, before |-> InitialSat,
           swapped |-> FALSE, returned |-> FALSE]

IdleSat ==
    /\ sat = InitialSat
    /\ wps = [i \in WarpPoints |-> Vec2(Zero, Zero)]
    /\ time = Zero
    /\ pc = "idle"
    /\ call = NoCall

InitSatOnly ==
    /\ sat = InitialSat
    /\ wps \in [WarpPoints -> WarpStarts]
    /\ time = Zero
    /\ pc = "loop"
    /\ call = NoCall

\* let time = get_time(); a frame without a click, up to the call of tick_to
FrameNoClick ==
    /\ pc = "loop"
    /\ \E t \in Times :
          /\ FLe(time, t)
          /\ time' = t
          /\ call' = [t |-> t, from |-> sat, steps |-> 0, before |-> sat,
                      swapped |-> FALSE, returned |-> FALSE]
    /\ pc' = "tick_to"
    /\ UNCHANGED <<sat, wps, tickVars, remapVars, orbitVars>>

\* a frame with a click: the warp point nearest to the mouse is any of them
FrameClick ==
    /\ pc = "loop"
    /\ \E t \in Times, i \in WarpPoints :
          /\ FLe(time, t)
          /\ time' = t
          /\ LET sw == swap(sat, wps, i)
             IN  /\ sat' = sw.sat
                 /\ wps' = sw.wps
                 /\ call' = [t |-> t, from |-> sw.sat, steps |-> 0, before |-> sw.sat,
                             swapped |-> TRUE, returned |-> FALSE]
    /\ pc' = "tick_to"
    /\ UNCHANGED <<tickVars, remapVars, orbitVars>>

\* one iteration of while self.when < when { ... }
TickToStep ==
    /\ pc = "tick_to"
    /\ loop_continues(sat, call.t)
    /\ sat' = step(sat)
    /\ call' = [call EXCEPT !.steps = @ + 1, !.before = sat]
    /\ UNCHANGED <<wps, time, pc, tickVars, remapVars, orbitVars>>

\* the loop's condition fails: tick_to returns, the frame ends
TickToReturn ==
    /\ pc = "tick_to"
    /\ ~loop_continues(sat, call.t)
    /\ call' = [call EXCEPT !.returned = TRUE]
    /\ pc' = "loop"
    /\ UNCHANGED <<sat, wps, time, tickVars, remapVars, orbitVars>>

(***************************************************************************)
(* The conversion scenario: a Csv is built, Koe::from_csv turns it into a  *)
(* Koe and Csv::from_koe turns that back; or Koe::new is called with       *)
(* elements of the caller's choosing.  The Csv has r along one axis and v  *)
(* along another, so that every angle is a multiple of a quarter turn:     *)
(* circular orbits, and elliptic ones met at periapsis or apoapsis, in     *)
(* every orientation, south-pointing angular momentum included; and one    *)
(* pair of magnitudes small enough for |h|^2 to underflow.                 *)
(***************************************************************************)
UnitVecs ==
    {Vec3(Fin(s * Scale), Zero, Zero) : s \in {-1, 1}} \cup
    {Vec3(Zero, Fin(s * Scale), Zero) : s \in {-1, 1}} \cup
    {Vec3(Zero, Zero, Fin(s * Scale)) : s \in {-1, 1}}

OrbitMu == Fin(4 * Scale)
\* |r| and |v|: mu = 4 and |r| = 1 make |v| = 2 circular, |v| = 1 an
\* apoapsis (e = 3/4) and |v| = 5/2 a periapsis (e = 9/16)
Magnitudes ==
    {<<One, Fin(2 * Scale)>>, <<One, One>>, <<One, Rnd(5 * Scale, 2)>>,
     <<Rnd(Scale, 8), Rnd(Scale, 8)>>}

OrbitInputs ==
    {[r |-> V3Mul(a, m[1]), v |-> V3Mul(b, m[2]), cb |-> CB_new(OrbitMu)] :
        <<a, b, m>> \in {t \in UnitVecs \X UnitVecs \X Magnitudes :
                            dot(t[1], t[2]) = Zero}}

QuarterTurns == {Ang(0), Ang(2)}
NewEcc == {Zero, Rnd(Scale, 2)}

IdleOrbit == oCsv = 0 /\ oKoe = 0 /\ oBack = 0 /\ opc = "idle"

InitOrbitOnly ==
    /\ oCsv \in OrbitInputs
    /\ oKoe = 0
    /\ oBack = 0
    /\ opc = "start"

FromCsv ==
    /\ opc = "start"
    /\ oKoe' = from_csv(oCsv)
    /\ opc' = "koe"
    /\ UNCHANGED <<oCsv, oBack, tickVars, remapVars, satVars>>

FromKoe ==
    /\ opc = "koe"
    /\ oBack' = from_koe(oKoe)
    /\ opc' = "csv"
    /\ UNCHANGED <<oCsv, oKoe, tickVars, remapVars, satVars>>

KoeNew ==
    /\ opc = "start"
    /\ \E e \in NewEcc, inc \in QuarterTurns, lan \in QuarterTurns,
          ap \in QuarterTurns :
          oKoe' = new(One, e, inc, lan, ap, Ang(0), oCsv.cb)
    /\ opc' = "new"
    /\ UNCHANGED <<oCsv, oBack, tickVars, remapVars, satVars>>

NextOrbit == FromCsv \/ FromKoe \/ KoeNew
(***************************************************************************)
(* The specifications: the program (main's loop), and one for each of the  *)
(* pure functions, applied to inputs drawn at the start.                   *)
(***************************************************************************)

Init == InitSatOnly /\ IdleTick /\ IdleRemap /\ IdleOrbit
Next == FrameNoClick \/ FrameClick \/ TickToStep \/ TickToReturn
Spec == Init /\ [][Next]_vars

InitTick == InitTickOnly /\ IdleRemap /\ IdleSat /\ IdleOrbit
SpecTick == InitTick /\ [][NextTick]_vars

InitRemap == InitRemapOnly /\ IdleTick /\ IdleSat /\ IdleOrbit
SpecRemap == InitRemap /\ [][NextRemap]_vars


InitOrbit == InitOrbitOnly /\ IdleTick /\ IdleRemap /\ IdleSat
SpecOrbit == InitOrbit /\ [][NextOrbit]_vars
(***************************************************************************)
(* C1.  Koe::tick(dt) returns a KOE whose m0 is the receiver's m0 + n*dt   *)
(* (as f64 computes it) and whose other fields are the receiver's; the     *)
(* receiver itself is left as it was.  Checked on each of the three calls. *)
(***************************************************************************)
TickResult(in, dt, out) ==
    /\ out.m0 = FAdd(in.m0, FMul(in.n, dt))
    /\ \A f \in KoeFields \ {"m0"} : out[f] = in[f]

\* C1: each tick returns the receiver with m0 + n*dt for m0, and leaves
\* the receiver as it was
C1_TickFrame ==
    /\ kIn = kOrig
    /\ tpc \in {"first", "second", "done"} => TickResult(kOrig, d1, kA)
    /\ tpc \in {"second", "done"} => TickResult(kA, d2, kB)
    /\ tpc = "done" => TickResult(kOrig, FAdd(d1, d2), kS)

\* a backward tick (dt < 0) has run and has changed m0 and nothing else
C1_Witness ==
    /\ tpc = "done"
    /\ d1.v < 0
    /\ kA.m0 # kOrig.m0
    /\ kA.n = kOrig.n /\ kA.a = kOrig.a
    /\ kIn = kOrig

(***************************************************************************)
(* C2.  Mean-motion linearity.  As stated: k.tick(d1).tick(d2) and         *)
(* k.tick(d1 + d2) have the same m0.                                       *)
(***************************************************************************)
C2_Linearity == tpc = "done" => kB.m0 = kS.m0

(***************************************************************************)
(* C2 as amended: the two m0 agree up to the rounding of the f64 sums and  *)
(* products.  They are equal whenever no intermediate result is rounded;   *)
(* otherwise each is within 4 units in the last place of the exact value   *)
(* m0 + n*(d1 + d2), scaled by |m0| + |n*d1| + |n*d2| (plus one grid step  *)
(* for underflow), so they are within twice that of each other.  Nothing   *)
(* wraps m0 into [0, 2*pi): the exact value is the unwrapped one.          *)
(***************************************************************************)
\* exact values, in units of 1 / Scale^2
ExactM0  == kOrig.m0.v * Scale + kOrig.n.v * (d1.v + d2.v)
Weight   == Abs(kOrig.m0.v) * Scale + Abs(kOrig.n.v * d1.v) + Abs(kOrig.n.v * d2.v)
NearExact(m) ==
    Pow2(MantBits) * Abs(m.v * Scale - ExactM0) <= 4 * Weight + Pow2(MantBits) * Scale

NoRounding ==
    /\ kA.m0.v * Scale = kOrig.m0.v * Scale + kOrig.n.v * d1.v
    /\ kB.m0.v * Scale = kA.m0.v * Scale + kOrig.n.v * d2.v
    /\ FAdd(d1, d2).v = d1.v + d2.v
    /\ kS.m0.v * Scale = ExactM0

\* C2 (amended): the m0 of tick(d1).tick(d2) and of tick(d1 + d2) are each
\* near the exact m0 + n*(d1 + d2), and equal when nothing is rounded
C2_LinearUpToRounding ==
    tpc = "done" =>
        /\ NearExact(kB.m0)
        /\ NearExact(kS.m0)
        /\ NoRounding => kB.m0 = kS.m0

\* both routes have run, over more than one revolution (2*pi < 6.5), and agree
C2_Witness ==
    /\ tpc = "done"
    /\ d1.v # 0 /\ d2.v # 0
    /\ kB.m0 = kS.m0
    /\ 2 * kB.m0.v > 13 * Scale
    /\ NoRounding

(***************************************************************************)
(* C6.  As stated: remap is the linear map between the ranges; it takes    *)
(* current.start to target.start and current.end to target.end, and any x  *)
(* to target.start + (x - current.start) / (current.end - current.start)   *)
(* * (target.end - target.start).                                          *)
(***************************************************************************)
RemapFormula ==
    rmp.out = FAdd(rmp.target.start,
                   FMul(FDiv(FSub(rmp.x, rmp.current.start),
                             FSub(rmp.current.end, rmp.current.start)),
                        FSub(rmp.target.end, rmp.target.start)))

\* C6 (as stated): remap is the linear map, both endpoints included
C6_LinearMap ==
    rmp.done =>
        /\ rmp.x = rmp.current.start => rmp.out = rmp.target.start
        /\ rmp.x = rmp.current.end => rmp.out = rmp.target.end
        /\ RemapFormula

(***************************************************************************)
(* C6 as amended: remap takes current.start to target.start exactly, and   *)
(* any x to the f64 value of the formula.  It takes current.end to         *)
(* (target.end - target.start) + target.start as f64 rounds the two        *)
(* operations: that is target.end when the difference target.end -         *)
(* target.start is exact (as in the ranges of tests::remap), and within    *)
(* 3 units in the last place of |target.start| + |target.end| otherwise.   *)
(* When no operation rounds, the result is the exact linear map.           *)
(***************************************************************************)
SpanExact == FSub(rmp.target.end, rmp.target.start).v
                 = rmp.target.end.v - rmp.target.start.v

RemapNoRounding ==
    LET num  == rmp.x.v - rmp.current.start.v
        den  == rmp.current.end.v - rmp.current.start.v
        span == rmp.target.end.v - rmp.target.start.v
        q    == FDiv(Fin(num), Fin(den))
        pr   == FMul(q, Fin(span))
    IN  /\ FSub(rmp.x, rmp.current.start) = Fin(num)
        /\ FSub(rmp.current.end, rmp.current.start) = Fin(den)
        /\ SpanExact
        /\ q.v * den = num * Scale
        /\ pr.v * Scale = q.v * span
        /\ rmp.out.v = pr.v + rmp.target.start.v

\* (out - ts) * (ce - cs) = (x - cs) * (te - ts)
RemapExactLinear ==
    (rmp.out.v - rmp.target.start.v) * (rmp.current.end.v - rmp.current.start.v)
        = (rmp.x.v - rmp.current.start.v) * (rmp.target.end.v - rmp.target.start.v)

\* C6 (amended): remap is the linear map as f64 rounds it; the start
\* endpoint is exact, the end endpoint is exact when target.end -
\* target.start is
C6_LinearMapRounded ==
    rmp.done =>
        /\ rmp.x = rmp.current.start => rmp.out = rmp.target.start
        /\ rmp.x = rmp.current.end =>
              /\ rmp.out = FAdd(FSub(rmp.target.end, rmp.target.start),
                                rmp.target.start)
              /\ SpanExact => rmp.out = rmp.target.end
              /\ Pow2(MantBits) * Abs(rmp.out.v - rmp.target.end.v)
                    <= 3 * (Abs(rmp.target.start.v) + Abs(rmp.target.end.v))
        /\ RemapFormula
        /\ RemapNoRounding => RemapExactLinear

\* (-0.5).remap(0.0..-1.0, 0.0..2.0) = 1.0: a range whose end is below its
\* start, an x inside it, no rounding
C6_Witness ==
    /\ rmp.done
    /\ rmp.current = Range(Zero, Fin(-Scale))
    /\ rmp.target = Range(Zero, Fin(2 * Scale))
    /\ 2 * rmp.x.v = -Scale
    /\ rmp.out = One
    /\ RemapNoRounding

(***************************************************************************)
(* C3.  When a click relocates the player, the satellite's as-of time      *)
(* `when` is reset to the frame's time, so that the tick_to that follows   *)
(* starts from the new position at exactly that instant.                   *)
(***************************************************************************)
C3_WhenResetOnOverride == call.swapped => call.from.when = call.t

(***************************************************************************)
(* C8.  As stated: a call tick_to(t) with when <= t returns after the      *)
(* smallest number k of steps with when + k*dt >= t, and then              *)
(* t <= when < t + dt; a call with t <= when takes no step and leaves the  *)
(* satellite as it was.                                                    *)
(***************************************************************************)
MaxSteps == 64
LeastK(w, t) == CHOOSE k \in 0..MaxSteps :
                   /\ w.v + k * SatDt.v >= t.v
                   /\ (k = 0 \/ w.v + (k - 1) * SatDt.v < t.v)

\* C8 (as stated): tick_to takes the least k with when + k*dt >= t and
\* returns with t <= when < t + dt; no step when t <= when
C8_TickToExact ==
    call.returned =>
        /\ FLe(call.from.when, call.t) =>
              /\ call.steps = LeastK(call.from.when, call.t)
              /\ call.t.v <= sat.when.v
              /\ sat.when.v < call.t.v + SatDt.v
        /\ FLe(call.t, call.from.when) => call.steps = 0 /\ sat = call.from

(***************************************************************************)
(* C8 as amended: tick_to(t) steps while when < t, and every step moves    *)
(* `when` forward (t stays below the size at which when + dt rounds back   *)
(* to when).  A call with when < t returns after the smallest number k of  *)
(* steps for which dt added k times to when, each sum rounded as f64       *)
(* rounds it, reaches t; that is the smallest k with when + k*dt >= t when *)
(* no sum is rounded.  On return t <= when, the value of when before the   *)
(* last step was below t, and when <= t + dt as f64 rounds that sum.  A    *)
(* call with t <= when takes no step and leaves pos, vel and when as they  *)
(* were.                                                                   *)
(***************************************************************************)
RECURSIVE AccumSteps(_, _)
AccumSteps(w, t) == IF FLt(w, t) THEN 1 + AccumSteps(FAdd(w, SatDt), t) ELSE 0

RECURSIVE AccumExact(_, _)
AccumExact(w, t) ==
    IF FLt(w, t)
    THEN FAdd(w, SatDt).v = w.v + SatDt.v /\ AccumExact(FAdd(w, SatDt), t)
    ELSE TRUE

\* C8 (amended): tick_to ends, after the least number of rounded additions
\* of dt that reaches t; no step when t <= when
C8_TickToRounded ==
    /\ (pc = "tick_to" /\ FLt(sat.when, call.t))
          => FLt(sat.when, FAdd(sat.when, SatDt))
    /\ call.returned =>
          /\ FLt(call.from.when, call.t) =>
                /\ call.steps = AccumSteps(call.from.when, call.t)
                /\ call.steps >= 1
                /\ FLe(call.t, sat.when)
                /\ FLt(call.before.when, call.t)
                /\ sat.when = FAdd(call.before.when, SatDt)
                /\ FLe(sat.when, FAdd(call.t, SatDt))
                /\ AccumExact(call.from.when, call.t) =>
                      /\ call.steps = LeastK(call.from.when, call.t)
                      /\ sat.when.v < call.t.v + SatDt.v
          /\ FLe(call.t, call.from.when) => call.steps = 0 /\ sat = call.from

\* a call that took several steps, one of whose sums was rounded, has returned
C8_Witness ==
    /\ call.returned
    /\ FLt(call.from.when, call.t)
    /\ call.steps >= 2
    /\ sat.when.v # call.from.when.v + call.steps * SatDt.v

(***************************************************************************)
(* C9.  Each step of tick_to is a semi-implicit Euler step: the            *)
(* acceleration is -pos * PULL / |pos|^3 at the position before the step,  *)
(* the velocity becomes vel + acc * dt, the position becomes pos + the     *)
(* new velocity * dt, and `when` becomes when + dt.                        *)
(***************************************************************************)
C9_SemiImplicitEuler ==
    call.steps >= 1 =>
        LET b   == call.before
            r   == FSqrt(FAdd(FMul(b.pos.x, b.pos.x), FMul(b.pos.y, b.pos.y)))
            r3  == FMul(FMul(r, r), r)
            ax  == FDiv(FMul(FNeg(b.pos.x), PULL), r3)
            ay  == FDiv(FMul(FNeg(b.pos.y), PULL), r3)
        IN  /\ sat.vel.x = FAdd(b.vel.x, FMul(ax, SatDt))
            /\ sat.vel.y = FAdd(b.vel.y, FMul(ay, SatDt))
            /\ sat.pos.x = FAdd(b.pos.x, FMul(sat.vel.x, SatDt))
            /\ sat.pos.y = FAdd(b.pos.y, FMul(sat.vel.y, SatDt))
            /\ sat.when = FAdd(b.when, SatDt)

\* a step has run in which the new velocity and the old one give different
\* positions
C9_Witness ==
    /\ call.steps >= 1
    /\ sat.vel # call.before.vel
    /\ sat.pos # VAdd(call.before.pos, VMul(call.before.vel, SatDt))
    /\ IsFin(sat.pos.x) /\ IsFin(sat.pos.y)

(***************************************************************************)
(* Claims about Koe::from_csv, Koe::new and Csv::from_koe (SpecOrbit).     *)
(***************************************************************************)
Converted == opc \in {"koe", "csv"}
ZeroVec   == Vec3(Zero, Zero, Zero)

\* the angle from cb.i to a vector along one of the equatorial axes,
\* measured towards cb.j
AngleFromI(e) ==
    IF e.y = Zero /\ FGt(e.x, Zero) THEN Ang(0)
    ELSE IF e.x = Zero /\ FGt(e.y, Zero) THEN Ang(2)
    ELSE IF e.y = Zero /\ FLt(e.x, Zero) THEN Ang(4)
    ELSE IF e.x = Zero /\ FLt(e.y, Zero) THEN Ang(6)
    ELSE Off

\* C4: every Koe returned by Koe::from_csv has ap = 0 if its eccentricity
\* is within the tolerance of 0 and its inclination is not, lan = 0 if its
\* inclination is within the tolerance of 0, and, if it is equatorial and
\* not circular, ap equal to the angle from i to the eccentricity vector.
C4_DegenerateOverrides ==
    Converted =>
        /\ (approx_eq_zero(oKoe.e) /\ ~approx_eq_zero(oKoe.inc))
               => oKoe.ap = Ang(0)
        /\ approx_eq_zero(oKoe.inc) => oKoe.lan = Ang(0)
        /\ (approx_eq_zero(oKoe.inc) /\ ~approx_eq_zero(oKoe.e))
               => oKoe.ap = AngleFromI(from_csv_elements(oCsv).e_vec)

\* an equatorial elliptic orbit whose periapsis lies a quarter turn from i
C4_Witness ==
    /\ opc = "koe"
    /\ approx_eq_zero(oKoe.inc) /\ ~approx_eq_zero(oKoe.e)
    /\ oKoe.lan = Ang(0) /\ oKoe.ap = Ang(2)

\* |a - b| <= 1e-6
Within(a, b) ==
    /\ IsFin(a) /\ IsFin(b)
    /\ Abs(a.v - b.v) < Scale /\ Abs(a.v - b.v) * 1000000 <= Scale
VecWithin(a, b) == \A c \in Axes : Within(a[c], b[c])
InDomain ==
    /\ oCsv.r # ZeroVec
    /\ FGe(oKoe.e, Zero) /\ FLt(oKoe.e, One)
\* C5 (as the specification states it): for a Csv with r # 0 and an
\* eccentricity in [0, 1), Csv::from_koe(Koe::from_csv(csv)) gives back r
\* and v within 1e-6.
C5_RoundTrip ==
    (opc = "csv" /\ InDomain) =>
        VecWithin(oBack.r, oCsv.r) /\ VecWithin(oBack.v, oCsv.v)

\* C7 (as the specification states it): when h # 0 the inclination is
\* never NaN; a cosine above 1 gives 0 and a cosine below -1 gives pi.
C7_IncClamped ==
    LET q == inclination(oCsv)
    IN  (Converted /\ q.h # ZeroVec) =>
            /\ ~IsNaN(oKoe.inc)
            /\ FGt(q.cos_inc, One) => oKoe.inc = Ang(0)
            /\ FLt(q.cos_inc, FNeg(One)) => oKoe.inc = PI

\* the rotation Koe::new would cache if it never left a rotation out
Unconditional(lan, inc, ap, cb) ==
    prepend_rotation(
        prepend_rotation(prepend_rotation(new_identity, cb.k, lan), cb.i, inc),
        cb.k, ap)

SkippedAreZero(k) ==
    /\ approx_eq_zero(k.inc) => (k.lan = Ang(0) /\ k.inc = Ang(0))
    /\ approx_eq_zero(k.e) => k.ap = Ang(0)
\* C10 (as the specification states it): for every Koe, rot is the
\* unconditional composition of the lan, inc and ap rotations; where the
\* lan and inc rotations were left out lan = 0 and inc = 0, and where the
\* ap rotation was left out ap = 0.
C10_SkipOnlyZero ==
    opc \in {"koe", "csv", "new"} =>
        /\ SkippedAreZero(oKoe)
        /\ oKoe.rot = Unconditional(oKoe.lan, oKoe.inc, oKoe.ap, oKoe.cb)

\* C10 (amended): for every Koe that Koe::from_csv returns, where the lan
\* and inc rotations were left out lan = 0 and inc is within the tolerance
\* of 0, where the ap rotation was left out ap = 0, and rot is the
\* composition of the lan, inc and ap rotations with an inclination within
\* the tolerance of 0 taken as 0.
C10_FromCsvSkipOnlyZero ==
    Converted =>
        /\ approx_eq_zero(oKoe.inc) => oKoe.lan = Ang(0)
        /\ approx_eq_zero(oKoe.e) => oKoe.ap = Ang(0)
        /\ oKoe.rot = Unconditional(oKoe.lan,
                          IF approx_eq_zero(oKoe.inc) THEN Ang(0) ELSE oKoe.inc,
                          oKoe.ap, oKoe.cb)

\* a circular polar orbit: the ap rotation is left out, the others are not
C10_Witness ==
    /\ opc = "koe"
    /\ approx_eq_zero(oKoe.e) /\ oKoe.ap = Ang(0)
    /\ oKoe.inc = Ang(2) /\ oKoe.lan = Ang(6)
    /\ oKoe.rot # new_identity
====
